---- MODULE Spec2Model ----
(***************************************************************************)
(* Model of the scan record store of src/main.py: the in-memory collection *)
(* scans_db, its snapshot file scans_db.json, the per-scan blob files      *)
(* under uploads/, and the handlers get_scans, get_scan, delete_scan and   *)
(* analyze_occlusion, plus the startup load.                               *)
(*                                                                         *)
(* Every handler is an `async def` without an await, so it runs to         *)
(* completion on the event loop: one action per handler.  File-system      *)
(* failures (open or write raising OSError) are inputs of the actions.     *)
(***************************************************************************)
EXTENDS Integers, Sequences, FiniteSets, TLC

VARIABLES
    scans_db,    \* the module global scans_db: a sequence of scan records
    snapshot,    \* the file scans_db.json: [exists, text]
    uploads,     \* the regular files that exist under UPLOAD_DIR (set of paths)
    scan_dirs,   \* the scan directories that exist under UPLOAD_DIR (set of ids)
    issued,      \* number of uuid4() values drawn so far
    faults,      \* number of file-system errors raised so far
    running,     \* TRUE while the process is serving requests
    response,    \* the response of the last handler: [op, arg, status, body]
    createdOk,   \* history: records whose create returned success, in order
    deletedOk,   \* history: ids whose delete returned success
    anyFailed,   \* history: some create or delete ended in an error (500)
    tasks        \* the handler coroutines of the requests in flight, per slot

vars == <<scans_db, snapshot, uploads, scan_dirs, issued, faults, running, response,
          createdOk, deletedOk, anyFailed, tasks>>

-----------------------------------------------------------------------------
(* Bounds *)

MaxScans == 3
MaxFaults == 1
MaxInflight == 2

-----------------------------------------------------------------------------
(* Values *)

\* Python's None; a str is a sequence of one-character strings, "" is <<>>
None == <<"None">>

\* uuid4 draws 122 random bits; the n-th draw is modelled as a value that no
\* earlier draw returned (collisions have probability about 2^-122).
uuid4(n) == <<"uuid", n>>

ScanIds == {uuid4(n) : n \in 1..MaxScans}

PatientIds == {<<"P", "1">>, <<"P", "2">>}

\* the create requests: (patient_id, pre_op_image.filename,
\* during_op_image.filename); a filename is None or a str
CreateRequests == {<<<<"P", "1">>, None, <<"s", ".", "p">>>>,
                   <<<<"P", "2">>, <<"s">>, None>>}

RECURSIVE SeqToSet(_)
SeqToSet(s) == IF s = <<>> THEN {} ELSE {Head(s)} \cup SeqToSet(Tail(s))

\* index of the last "." of p, 0 when there is none (str.rfind)
RECURSIVE rfind_dot(_, _)
rfind_dot(p, i) ==
    IF i = 0 THEN 0
    ELSE IF p[i] = "." THEN i
    ELSE rfind_dot(p, i - 1)

\* os.path.splitext(p)[1] for a p without directory separators: the suffix
\* from the last dot, unless only dots precede that dot
splitext_ext(p) ==
    LET dotIndex == rfind_dot(p, Len(p))
    IN  IF dotIndex > 0 /\ \E j \in 1..(dotIndex - 1) : p[j] # "."
        THEN SubSeq(p, dotIndex, Len(p))
        ELSE <<>>

\* `os.path.splitext(f.filename)[1] if f.filename else '.jpg'`
upload_ext(filename) ==
    IF filename = None \/ filename = <<>>
    THEN <<".", "j", "p", "g">>
    ELSE splitext_ext(filename)

\* scan_file with the files written to UPLOAD_DIR itself
scan_file_flat(scan_id, stem, ext) == <<<<>>, <<stem>> \o ext>>

\* scan_dir / f"{stem}{ext}" with scan_dir = UPLOAD_DIR / scan_id, as the
\* path below UPLOAD_DIR
scan_file(scan_id, stem, ext) == <<scan_id, <<stem>> \o ext>>

\* str(path.relative_to(UPLOAD_DIR)): the components joined by "/"
relative_str(path) == <<path[1], "/">> \o path[2]

\* the file below UPLOAD_DIR that a stored relative path string names
path_of_str(s) == <<s[1], SubSeq(s, 3, Len(s))>>

\* datetime.now(timezone.utc) at the n-th request that reads the clock: the
\* clock has advanced by a tick since the previous reading
utc_now(n) == n

\* datetime.isoformat() of a timezone-aware UTC time
isoformat(t) == <<"T", t, "+00:00">>

\* the mock analysis result built by analyze_occlusion (scores in hundredths)
mock_analysis(scan_id) ==
    [status   |-> "success",
     scan_id  |-> scan_id,
     analysis |-> [occlusion_score |-> 85,
                   alignment_score |-> 92,
                   findings        |-> <<"Good overall occlusion",
                                         "Slight misalignment on lower right molars">>,
                   recommendations |-> <<"Consider minor adjustment to lower right molars",
                                         "Schedule follow-up in 2 weeks">>]]

\* the dict scan_data built by analyze_occlusion
scan_record(scan_id, patient_id, pre_op_path, during_op_path, result_path, t) ==
    [id               |-> scan_id,
     patient_id       |-> patient_id,
     pre_op_path      |-> relative_str(pre_op_path),
     during_op_path   |-> relative_str(during_op_path),
     result_path      |-> relative_str(result_path),
     created_at       |-> isoformat(t),
     analysis_results |-> mock_analysis(scan_id)]

-----------------------------------------------------------------------------
(* JSON text of the snapshot: a sequence of tokens *)

\* key order of a scan record dict (insertion order of scan_data)
FieldOrder == <<"id", "patient_id", "pre_op_path", "during_op_path",
                "result_path", "created_at", "analysis_results">>

\* json encoding of one dict: an object token holding the key/value pairs in
\* insertion order
json_object(d) ==
    <<"{", [i \in 1..Len(FieldOrder) |-> <<FieldOrder[i], d[FieldOrder[i]]>>], "}">>

\* json.dumps(list of dicts): "[" obj "," obj ... "]"
RECURSIVE json_items(_)
json_items(db) ==
    IF db = <<>> THEN <<>>
    ELSE IF Len(db) = 1 THEN <<json_object(db[1])>>
    ELSE <<json_object(db[1]), <<",">> >> \o json_items(Tail(db))

json_dumps(db) == << <<"[">> >> \o json_items(db) \o << <<"]">> >>

IsObjectToken(tok) ==
    Len(tok) = 3 /\ tok[1] = "{" /\ tok[3] = "}"

\* the dict an object token decodes to (a later duplicate key wins)
json_dict(tok) ==
    LET pairs == tok[2]
        keys  == {pairs[i][1] : i \in DOMAIN pairs}
        last(k) == CHOOSE i \in DOMAIN pairs :
                      /\ pairs[i][1] = k
                      /\ \A j \in DOMAIN pairs : pairs[j][1] = k => j <= i
    IN  [k \in keys |-> pairs[last(k)][2]]

\* items after "[": obj ("," obj)* "]" and nothing after; an error otherwise
RECURSIVE json_parse_items(_, _)
json_parse_items(toks, acc) ==
    IF toks = <<>> THEN [error |-> TRUE, value |-> <<>>]
    ELSE IF ~IsObjectToken(Head(toks)) THEN [error |-> TRUE, value |-> <<>>]
    ELSE LET acc2 == Append(acc, json_dict(Head(toks)))
             rest == Tail(toks)
         IN  IF rest = << <<"]">> >> THEN [error |-> FALSE, value |-> acc2]
             ELSE IF rest # <<>> /\ Head(rest) = <<",">>
                  THEN json_parse_items(Tail(rest), acc2)
                  ELSE [error |-> TRUE, value |-> <<>>]

\* json.loads of a snapshot text: [error, value]; error stands for the
\* JSONDecodeError that json.load raises
json_loads(text) ==
    IF text = <<>> \/ Head(text) # <<"[">> THEN [error |-> TRUE, value |-> <<>>]
    ELSE IF Tail(text) = << <<"]">> >> THEN [error |-> FALSE, value |-> <<>>]
    ELSE json_parse_items(Tail(text), <<>>)

-----------------------------------------------------------------------------
(* The snapshot file *)

\* outcomes of `with open('scans_db.json', 'w') as f: json.dump(db, f)`:
\* "none" (no error), "open" (open raises, the file is untouched), "write"
\* (open truncated the file, the dump raised after k tokens)
WriteFails == {"none", "open", "write"}

\* number of tokens of the dump of a list of n dicts
DumpLen(n) == IF n <= 0 THEN 2 ELSE 2 * n + 1

\* the lengths a failed dump of a list of n dicts leaves in the file: nothing
\* after the truncation by open, or everything but the last token
PartialLens(n) == {0, DumpLen(n) - 1}

\* write_json with the file opened in mode 'a': the dump is added to the old text
write_json_append(file, db, fail, k) ==
    IF fail = "open" THEN file
    ELSE IF fail = "write"
         THEN [exists |-> TRUE, text |-> file.text \o SubSeq(json_dumps(db), 1, k)]
         ELSE [exists |-> TRUE, text |-> file.text \o json_dumps(db)]

write_json(file, db, fail, k) ==
    IF fail = "open" THEN file
    ELSE IF fail = "write"
         THEN [exists |-> TRUE, text |-> SubSeq(json_dumps(db), 1, k)]
         ELSE [exists |-> TRUE, text |-> json_dumps(db)]

\* save_scan_to_db with the dump before the append
save_scan_to_db_stale(db, file, scan_data, fail, k) ==
    [scans_db |-> Append(db, scan_data),
     snapshot |-> write_json(file, db, fail, k),
     raised   |-> fail # "none"]

\* save_scan_to_db with scans_db.insert(0, scan_data)
save_scan_to_db_prepend(db, file, scan_data, fail, k) ==
    LET db2 == <<scan_data>> \o db
    IN  [scans_db |-> db2,
         snapshot |-> write_json(file, db2, fail, k),
         raised   |-> fail # "none"]

\* save_scan_to_db: append, then rewrite the snapshot; raised = the rewrite
\* raised
save_scan_to_db(db, file, scan_data, fail, k) ==
    LET db2 == Append(db, scan_data)
    IN  [scans_db |-> db2,
         snapshot |-> write_json(file, db2, fail, k),
         raised   |-> fail # "none"]

\* load_scans_from_db with `except ValueError: return []` around the json.load
load_scans_from_db_lenient(file) ==
    IF file.exists /\ ~json_loads(file.text).error THEN json_loads(file.text)
    ELSE [error |-> FALSE, value |-> <<>>]

\* load_scans_from_db: [error, value]
load_scans_from_db(file) ==
    IF file.exists THEN json_loads(file.text)
    ELSE [error |-> FALSE, value |-> <<>>]

-----------------------------------------------------------------------------
(* Read handlers *)

\* get_scans: `if patient_id:` is false for None and for ""
get_scans(db, patient_id) ==
    IF patient_id # None /\ patient_id # <<>>
    THEN SelectSeq(db, LAMBDA scan : scan.patient_id = patient_id)
    ELSE db

base_url == "http://your-server-ip:8000"

file_url(path_str) == <<base_url, "/uploads/">> \o path_str

\* scan.copy() with pre_op_url, during_op_url and result_url added
with_urls(scan) ==
    [k \in DOMAIN scan \cup {"pre_op_url", "during_op_url", "result_url"} |->
        IF k = "pre_op_url" THEN file_url(scan.pre_op_path)
        ELSE IF k = "during_op_url" THEN file_url(scan.during_op_path)
        ELSE IF k = "result_url" THEN file_url(scan.result_path)
        ELSE scan[k]]

\* get_scan with `scan_data = scan` in place of scan.copy(): the URL fields
\* are set on the stored dict
get_scan_no_copy(db, scan_id) ==
    IF \E i \in DOMAIN db : db[i].id = scan_id
    THEN LET i == CHOOSE j \in DOMAIN db :
                     /\ db[j].id = scan_id
                     /\ \A h \in 1..(j - 1) : db[h].id # scan_id
         IN  [scans_db |-> [db EXCEPT ![i] = with_urls(db[i])],
              status |-> 200, body |-> with_urls(db[i])]
    ELSE [scans_db |-> db, status |-> 404, body |-> "Scan not found"]

\* get_scan: the first record with the id, or 404; scans_db is the collection
\* after the call (the URL fields are set on a copy)
get_scan(db, scan_id) ==
    IF \E i \in DOMAIN db : db[i].id = scan_id
    THEN LET i == CHOOSE j \in DOMAIN db :
                     /\ db[j].id = scan_id
                     /\ \A h \in 1..(j - 1) : db[h].id # scan_id
         IN  [scans_db |-> db, status |-> 200, body |-> with_urls(db[i])]
    ELSE [scans_db |-> db, status |-> 404, body |-> "Scan not found"]

-----------------------------------------------------------------------------
(* delete_scan *)

\* delete_scan without the rewrite of the snapshot
delete_scan_memory_only(db, file, scan_id, fail, k) ==
    LET db2 == SelectSeq(db, LAMBDA scan : scan.id # scan_id)
    IN  IF Len(db2) = Len(db)
        THEN [scans_db |-> db2, snapshot |-> file, status |-> 404]
        ELSE [scans_db |-> db2, snapshot |-> file, status |-> 200]

\* delete_scan with the rewrite moved above the length test
delete_scan_write_first(db, file, scan_id, fail, k) ==
    LET db2 == SelectSeq(db, LAMBDA scan : scan.id # scan_id)
    IN  IF Len(db2) = Len(db)
        THEN [scans_db |-> db2, snapshot |-> write_json(file, db2, "none", 0),
              status |-> 404]
        ELSE [scans_db |-> db2,
              snapshot |-> write_json(file, db2, fail, k),
              status   |-> IF fail = "none" THEN 200 ELSE 500]

\* the filtered list is bound to scans_db before the length test and before
\* the rewrite; a rewrite that raises ends the request with status 500
delete_scan(db, file, scan_id, fail, k) ==
    LET db2 == SelectSeq(db, LAMBDA scan : scan.id # scan_id)
    IN  IF Len(db2) = Len(db)
        THEN [scans_db |-> db2, snapshot |-> file, status |-> 404]
        ELSE [scans_db |-> db2,
              snapshot |-> write_json(file, db2, fail, k),
              status   |-> IF fail = "none" THEN 200 ELSE 500]

\* delete_scan followed by shutil.rmtree(UPLOAD_DIR / scan_id) for a record
\* that was found
delete_scan_blobs_rmtree(files, dirs, db, scan_id) ==
    IF \E i \in DOMAIN db : db[i].id = scan_id
    THEN [uploads |-> {f \in files : f[1] # scan_id}, scan_dirs |-> dirs \ {scan_id}]
    ELSE [uploads |-> files, scan_dirs |-> dirs]

\* the files and directories under UPLOAD_DIR after delete_scan: no statement
\* of delete_scan touches UPLOAD_DIR
delete_scan_blobs(files, dirs, db, scan_id) ==
    [uploads |-> files, scan_dirs |-> dirs]

-----------------------------------------------------------------------------
(* analyze_occlusion *)

\* the statement of the try block that raises, in program order; "none" when
\* none raises
CreateStages == <<"mkdir", "pre_open", "pre_write", "during_open",
                  "during_write", "result_open", "result_write",
                  "db_open", "db_write", "none">>

CreateFails == SeqToSet(CreateStages)

StageIndex(fail) == CHOOSE i \in DOMAIN CreateStages : CreateStages[i] = fail

\* the except block without the unlink of pre_op_path
cleanup_on_error_during_only(files, bound, pre_op_path, during_op_path) ==
    IF bound THEN files \ {during_op_path} ELSE files

\* the except block: unlink pre_op_path and during_op_path when the names are
\* bound and the files exist; analysis_results.json is not unlinked
cleanup_on_error(files, bound, pre_op_path, during_op_path) ==
    IF bound THEN files \ {pre_op_path, during_op_path} ELSE files

\* analyze_occlusion with save_scan_to_db(scan_data) called before the analysis
\* results are written
analyze_occlusion_save_first(db, file, files, scan_id, t, patient_id, pre_name, during_name, fail, k) ==
    LET stage          == StageIndex(fail)
        pre_op_path    == scan_file(scan_id, "pre_op", upload_ext(pre_name))
        during_op_path == scan_file(scan_id, "during_op", upload_ext(during_name))
        result_path    == scan_file(scan_id, "analysis_results", <<".", "j", "s", "o", "n">>)
        \* open(.., "wb") creates the file; a failing copy leaves it partial
        written        == (IF stage >= 3 THEN {pre_op_path} ELSE {})
                          \cup (IF stage >= 5 THEN {during_op_path} ELSE {})
                          \cup (IF stage >= 7 THEN {result_path} ELSE {})
        scan_data      == scan_record(scan_id, patient_id, pre_op_path,
                                      during_op_path, result_path, t)
        saved          == save_scan_to_db(db, file, scan_data,
                              IF fail = "db_open" THEN "open"
                              ELSE IF fail = "db_write" THEN "write" ELSE "none", k)
    IN  IF fail = "none"
        THEN [scans_db |-> saved.scans_db, snapshot |-> saved.snapshot,
              uploads |-> files \cup written, made_dir |-> TRUE,
              status |-> 200, body |-> mock_analysis(scan_id)]
        ELSE [scans_db |-> IF stage >= 6 THEN saved.scans_db ELSE db,
              snapshot |-> IF stage >= 6 THEN saved.snapshot ELSE file,
              uploads  |-> cleanup_on_error(files \cup written, stage >= 2,
                                            pre_op_path, during_op_path),
              \* scan_dir.mkdir(exist_ok=True); the except block leaves it
              made_dir |-> stage >= 2,
              \* detail = f"An error occurred during analysis: {str(e)}"
              status |-> 500, body |-> <<"An error occurred during analysis: ", fail>>]

analyze_occlusion(db, file, files, scan_id, t, patient_id, pre_name, during_name, fail, k) ==
    LET stage          == StageIndex(fail)
        pre_op_path    == scan_file(scan_id, "pre_op", upload_ext(pre_name))
        during_op_path == scan_file(scan_id, "during_op", upload_ext(during_name))
        result_path    == scan_file(scan_id, "analysis_results", <<".", "j", "s", "o", "n">>)
        \* open(.., "wb") creates the file; a failing copy leaves it partial
        written        == (IF stage >= 3 THEN {pre_op_path} ELSE {})
                          \cup (IF stage >= 5 THEN {during_op_path} ELSE {})
                          \cup (IF stage >= 7 THEN {result_path} ELSE {})
        scan_data      == scan_record(scan_id, patient_id, pre_op_path,
                                      during_op_path, result_path, t)
        saved          == save_scan_to_db(db, file, scan_data,
                              IF fail = "db_open" THEN "open"
                              ELSE IF fail = "db_write" THEN "write" ELSE "none", k)
    IN  IF fail = "none"
        THEN [scans_db |-> saved.scans_db, snapshot |-> saved.snapshot,
              uploads |-> files \cup written, made_dir |-> TRUE,
              status |-> 200, body |-> mock_analysis(scan_id)]
        ELSE [scans_db |-> IF stage >= 8 THEN saved.scans_db ELSE db,
              snapshot |-> IF stage >= 8 THEN saved.snapshot ELSE file,
              uploads  |-> cleanup_on_error(files \cup written, stage >= 2,
                                            pre_op_path, during_op_path),
              \* scan_dir.mkdir(exist_ok=True); the except block leaves it
              made_dir |-> stage >= 2,
              \* detail = f"An error occurred during analysis: {str(e)}"
              status |-> 500, body |-> <<"An error occurred during analysis: ", fail>>]

-----------------------------------------------------------------------------
(* The state machine *)

NoFile == [exists |-> FALSE, text |-> <<>>]

\* a slot without a request
IdleTask == [op |-> "none", arg |-> None, pc |-> "idle", scan_data |-> <<>>,
             initial_length |-> 0]

\* a first start: no snapshot file, an empty uploads directory
Init ==
    /\ snapshot = NoFile
    /\ scans_db = load_scans_from_db(NoFile).value
    /\ uploads = {}
    /\ scan_dirs = {}
    /\ issued = 0
    /\ faults = 0
    /\ running = TRUE
    /\ response = [op |-> "startup", arg |-> None, status |-> 200, body |-> <<>>]
    /\ createdOk = <<>>
    /\ deletedOk = {}
    /\ anyFailed = FALSE
    /\ tasks = [slot \in 1..MaxInflight |-> IdleTask]

\* POST /api/analyze-occlusion
Create(patient_id, pre_name, during_name, fail, k) ==
    /\ running
    /\ issued < MaxScans
    /\ fail # "none" => faults < MaxFaults
    /\ fail = "db_write" => k \in PartialLens(Len(scans_db) + 1)
    /\ fail # "db_write" => k = 0
    /\ LET scan_id == uuid4(issued + 1)
           r == analyze_occlusion(scans_db, snapshot, uploads, scan_id, utc_now(issued + 1),
                                  patient_id, pre_name, during_name, fail, k)
       IN  /\ scans_db' = r.scans_db
           /\ snapshot' = r.snapshot
           /\ uploads' = r.uploads
           /\ scan_dirs' = IF r.made_dir THEN scan_dirs \cup {scan_id} ELSE scan_dirs
           /\ response' = [op |-> "create", arg |-> scan_id,
                           status |-> r.status, body |-> r.body]
           /\ createdOk' = IF r.status = 200
                           THEN Append(createdOk,
                                    CHOOSE scan \in SeqToSet(r.scans_db) : scan.id = scan_id)
                           ELSE createdOk
           /\ anyFailed' = (anyFailed \/ r.status = 500)
    /\ issued' = issued + 1
    /\ faults' = IF fail = "none" THEN faults ELSE faults + 1
    /\ UNCHANGED <<running, deletedOk, tasks>>

\* DELETE /api/scans/{scan_id}
Delete(scan_id, fail, k) ==
    /\ running
    /\ fail # "none" => faults < MaxFaults
    /\ fail = "write" => k \in PartialLens(Len(scans_db) - 1)
    /\ fail # "write" => k = 0
    /\ LET r == delete_scan(scans_db, snapshot, scan_id, fail, k)
           b == delete_scan_blobs(uploads, scan_dirs, scans_db, scan_id)
       IN  /\ r.status = 404 => fail = "none"
           /\ uploads' = b.uploads
           /\ scan_dirs' = b.scan_dirs
           /\ scans_db' = r.scans_db
           /\ snapshot' = r.snapshot
           /\ response' = [op |-> "delete", arg |-> scan_id,
                           status |-> r.status, body |-> <<>>]
           /\ deletedOk' = IF r.status = 200 THEN deletedOk \cup {scan_id} ELSE deletedOk
           /\ anyFailed' = (anyFailed \/ r.status = 500)
    /\ faults' = IF fail = "none" THEN faults ELSE faults + 1
    /\ UNCHANGED <<issued, running, createdOk, tasks>>

\* GET /api/scans
List(patient_id) ==
    /\ running
    /\ response' = [op |-> "list", arg |-> patient_id, status |-> 200,
                    body |-> get_scans(scans_db, patient_id)]
    /\ UNCHANGED <<scans_db, snapshot, uploads, scan_dirs, issued, faults, running,
                   createdOk, deletedOk, anyFailed, tasks>>

\* GET /api/scans/{scan_id}
Get(scan_id) ==
    /\ running
    /\ LET r == get_scan(scans_db, scan_id)
       IN  /\ scans_db' = r.scans_db
           /\ response' = [op |-> "get", arg |-> scan_id, status |-> r.status,
                           body |-> r.body]
    /\ UNCHANGED <<snapshot, uploads, scan_dirs, issued, faults, running,
                   createdOk, deletedOk, anyFailed, tasks>>

\* the process is stopped and started again: scans_db = load_scans_from_db();
\* a snapshot that does not parse makes the import raise, no app is served
Restart ==
    /\ LET r == load_scans_from_db(snapshot)
       IN  /\ scans_db' = r.value
           /\ running' = ~r.error
           /\ response' = [op |-> "startup", arg |-> None,
                           status |-> IF r.error THEN 500 ELSE 200, body |-> <<>>]
    /\ UNCHANGED <<snapshot, uploads, scan_dirs, issued, faults, createdOk, deletedOk,
                   anyFailed, tasks>>

ListArgs == PatientIds \cup {None, <<>>}

Next ==
    \/ \E req \in CreateRequests, fail \in CreateFails,
          k \in PartialLens(Len(scans_db) + 1) :
          Create(req[1], req[2], req[3], fail, k)
    \/ \E scan_id \in ScanIds, fail \in WriteFails,
          k \in PartialLens(Len(scans_db) - 1) :
          Delete(scan_id, fail, k)
    \/ \E patient_id \in ListArgs : List(patient_id)
    \/ \E scan_id \in ScanIds : Get(scan_id)
    \/ Restart

Spec == Init /\ [][Next]_vars

-----------------------------------------------------------------------------
(* Properties *)

Ids(db) == {db[i].id : i \in DOMAIN db}

\* the file a stored path names exists under UPLOAD_DIR
FileExists(path_str) == path_of_str(path_str) \in uploads

\* C1: whenever a create or delete has returned success, the snapshot file
\* parses to exactly the in-memory collection: same records, same order,
\* same field values.
SnapshotMatchesAfterSuccess ==
    (response.op \in {"create", "delete"} /\ response.status = 200)
        => load_scans_from_db(snapshot) = [error |-> FALSE, value |-> scans_db]

\* a delete returned success after an earlier failed request, records remain
SnapshotMatchesAfterSuccessWitness ==
    /\ response.op = "delete" /\ response.status = 200
    /\ anyFailed
    /\ scans_db # <<>>

\* C2: create is all-or-nothing: a create that fails leaves list() as it was
\* at entry.
FailedCreateLeavesCollection ==
    [][(response'.op = "create" /\ response'.status = 500)
          => get_scans(scans_db', None) = get_scans(scans_db, None)]_vars

\* C3: a delete whose snapshot rewrite fails is reported as a failure and
\* leaves the in-memory collection as it was at entry.
FailedDeleteRollsBack ==
    [][(response'.op = "delete" /\ response'.arg \in Ids(scans_db)
            /\ response'.status # 200)
          => (response'.status = 500 /\ scans_db' = scans_db)]_vars

\* C4: every record of the collection has its pre_op_path, during_op_path
\* and result_path pointing at files that exist on disk.
RecordPathsExist ==
    \A i \in DOMAIN scans_db :
        /\ FileExists(scans_db[i].pre_op_path)
        /\ FileExists(scans_db[i].during_op_path)
        /\ FileExists(scans_db[i].result_path)

\* C5: when every create and delete so far returned success, a restart
\* loads a collection equal to the collection immediately before the restart.
RestartRoundTrip ==
    [][(response'.op = "startup" /\ ~anyFailed)
          => (running' /\ scans_db' = scans_db)]_vars

\* a restart has reloaded two records after a successful delete
RestartRoundTripWitness ==
    /\ response.op = "startup" /\ ~anyFailed
    /\ Len(scans_db) = 2
    /\ deletedOk # {}

\* C6: list(patient_id = X), for every supplied string X including the empty
\* string, returns exactly the records whose patient_id equals X, in order.
ListFilterExact ==
    (response.op = "list" /\ response.arg # None)
        => response.body = SelectSeq(scans_db,
                               LAMBDA scan : scan.patient_id = response.arg)

\* C7: when every create and delete so far returned success, list() returns
\* exactly the records created and not since deleted, in creation order.
ListIsCreatedMinusDeleted ==
    ~anyFailed
        => /\ get_scans(scans_db, None)
                = SelectSeq(createdOk, LAMBDA scan : scan.id \notin deletedOk)
           /\ (response.op = "list" /\ response.arg = None)
                => response.body
                     = SelectSeq(createdOk, LAMBDA scan : scan.id \notin deletedOk)

\* list() has returned the two records left of three created, the first
\* created having been deleted
ListIsCreatedMinusDeletedWitness ==
    /\ ~anyFailed
    /\ response.op = "list" /\ response.arg = None
    /\ Len(createdOk) = 3
    /\ deletedOk = {createdOk[1].id}
    /\ Len(response.body) = 2

\* C8: once delete(id) has returned success, get(id) answers 404, also after
\* later requests and restarts.
DeletedStaysNotFound ==
    \A scan_id \in deletedOk :
        /\ get_scan(scans_db, scan_id).status = 404
        /\ (response.op = "get" /\ response.arg = scan_id) => response.status = 404

\* get(id) was answered 404 after delete(id) succeeded, with other records
\* left in the collection
DeletedStaysNotFoundWitness ==
    /\ response.op = "get" /\ response.arg \in deletedOk
    /\ response.status = 404
    /\ scans_db # <<>>

\* C9: delete(id) with an id that matches no record answers 404 and leaves
\* the in-memory collection and the snapshot file unchanged.
DeleteMissingIsNoop ==
    [][(response'.op = "delete" /\ response'.arg \notin Ids(scans_db))
          => /\ response'.status = 404
             /\ scans_db' = scans_db
             /\ snapshot' = snapshot]_vars

\* a delete was answered 404 while the collection held a record that the
\* snapshot file does not hold
DeleteMissingIsNoopWitness ==
    /\ response.op = "delete" /\ response.status = 404
    /\ scans_db # <<>>
    /\ load_scans_from_db(snapshot).value # scans_db

\* the snapshot file exists and json.load of it raises
SnapshotCorrupt == snapshot.exists /\ json_loads(snapshot.text).error

\* C11 (as stated): a startup with a snapshot file that does not parse ends
\* in an error without serving, and only an absent snapshot file yields an
\* empty collection at startup.
OnlyAbsentSnapshotStartsEmpty ==
    [][response'.op = "startup"
          => /\ SnapshotCorrupt => (~running' /\ response'.status = 500)
             /\ (running' /\ scans_db' = <<>>) => ~snapshot.exists]_vars

\* C11 (amended): a startup with a snapshot file that does not parse ends in
\* an error without serving; a startup that serves an empty collection had
\* no snapshot file or a snapshot file holding the empty list.
CorruptSnapshotHaltsStartup ==
    [][response'.op = "startup"
          => /\ SnapshotCorrupt => (~running' /\ response'.status = 500)
             /\ (running' /\ scans_db' = <<>>)
                   => (~snapshot.exists \/ snapshot.text = json_dumps(<<>>))]_vars

\* a startup found a snapshot file that does not parse and ended in an error
CorruptSnapshotHaltsStartupWitness ==
    /\ response.op = "startup" /\ response.status = 500
    /\ SnapshotCorrupt
    /\ ~running

\* the last request was a create in which writing the second upload raised
SecondUploadFailed ==
    /\ response.op = "create" /\ response.status = 500
    /\ response.body[2] \in {"during_open", "during_write"}

\* the upload files (pre_op*, during_op*) in the blob directory of scan_id
UploadFilesOf(scan_id) ==
    {f \in uploads : f[1] = scan_id /\ f[2][1] \in {"pre_op", "during_op"}}

\* C12: when writing the second upload fails, the create fails, neither
\* upload file of that scan exists afterwards and no record of the
\* collection references them.
SecondUploadFailureCleansUp ==
    SecondUploadFailed
        => /\ UploadFilesOf(response.arg) = {}
           /\ response.arg \notin Ids(scans_db)
           /\ \A i \in DOMAIN scans_db :
                 /\ path_of_str(scans_db[i].pre_op_path)[1] # response.arg
                 /\ path_of_str(scans_db[i].during_op_path)[1] # response.arg

\* the copy of the second upload raised after its file was created, in a
\* store that holds a record
SecondUploadFailureCleansUpWitness ==
    /\ SecondUploadFailed
    /\ response.body[2] = "during_write"
    /\ scans_db # <<>>

UrlFields == {"pre_op_url", "during_op_url", "result_url"}

\* C13: list and get leave the in-memory collection (with every field of
\* every record), the snapshot file and the blob files unchanged; the URL
\* fields of get's result are not in any stored record; a read repeated
\* right after the same read returns the same result.
ReadsArePure ==
    [][response'.op \in {"list", "get"}
          => /\ scans_db' = scans_db
             /\ snapshot' = snapshot
             /\ uploads' = uploads
             /\ \A i \in DOMAIN scans_db' : DOMAIN scans_db'[i] \cap UrlFields = {}
             /\ (response.op = response'.op /\ response.arg = response'.arg)
                   => response' = response]_vars

\* get has returned a record with its URL fields
ReadsArePureWitness ==
    /\ response.op = "get" /\ response.status = 200
    /\ UrlFields \subseteq DOMAIN response.body
    /\ Len(scans_db) >= 2

\* C14: delete(id) leaves the blob directory of the deleted scan, the files
\* in it and the files of every other scan unchanged.
DeleteKeepsBlobs ==
    [][response'.op = "delete"
          => (uploads' = uploads /\ scan_dirs' = scan_dirs)]_vars

\* a delete returned success and the directory and the three files of the
\* deleted scan are still there
DeleteKeepsBlobsWitness ==
    /\ response.op = "delete" /\ response.status = 200
    /\ response.arg \in scan_dirs
    /\ Cardinality({f \in uploads : f[1] = response.arg}) = 3

\* C15: every rewrite is atomic: whenever the snapshot file changes it holds
\* the complete collection from before the mutation or the complete
\* collection after it, so it always parses.
SnapshotRewriteAtomic ==
    [][snapshot' # snapshot
          => /\ ~load_scans_from_db(snapshot').error
             /\ load_scans_from_db(snapshot').value \in {scans_db, scans_db'}]_vars

\* the statements of analyze_occlusion before the call of save_scan_to_db
BeforeSave == {"mkdir", "pre_open", "pre_write", "during_open", "during_write",
               "result_open", "result_write"}

\* C16: in a create, the append and the snapshot rewrite happen only after
\* the two uploads and the analysis artifact were written: a create in which
\* one of these writes (or the mkdir before them) raised leaves scans_db and
\* the snapshot file untouched, and a create that touched either has written
\* the artifact, and all three files when it succeeded.
RewriteOnlyAfterWrites ==
    [][response'.op = "create"
          => /\ (response'.status = 500 /\ response'.body[2] \in BeforeSave)
                   => (scans_db' = scans_db /\ snapshot' = snapshot)
             /\ (scans_db' # scans_db \/ snapshot' # snapshot)
                   => /\ \E f \in uploads' :
                            f[1] = response'.arg /\ f[2][1] = "analysis_results"
                      /\ response'.status = 200
                            => Cardinality({f \in uploads' : f[1] = response'.arg}) = 3]_vars

\* the write of the analysis artifact raised in a store that holds a record
RewriteOnlyAfterWritesWitness ==
    /\ response.op = "create" /\ response.status = 500
    /\ response.body[2] = "result_write"
    /\ scans_db # <<>>
    /\ load_scans_from_db(snapshot).value = scans_db

\* the paths a record stores
PathsOf(scan) == {scan.pre_op_path, scan.during_op_path, scan.result_path}

\* the records created with success and the records of the collection
KnownRecords == SeqToSet(createdOk) \cup SeqToSet(scans_db)

\* C17: the three paths of a record with id i are distinct and are
\* i/pre_op<ext>, i/during_op<ext> and i/analysis_results.json; records with
\* different ids share no path.
PathsInOwnDirectory ==
    /\ \A scan \in KnownRecords :
          /\ Cardinality(PathsOf(scan)) = 3
          /\ \A p \in PathsOf(scan) : p[1] = scan.id /\ p[2] = "/"
          /\ scan.pre_op_path[3] = "pre_op"
          /\ scan.during_op_path[3] = "during_op"
          /\ scan.result_path
                = <<scan.id, "/", "analysis_results", ".", "j", "s", "o", "n">>
    /\ \A a, b \in KnownRecords :
          a.id # b.id => PathsOf(a) \cap PathsOf(b) = {}

\* two records were created with success, with different upload extensions
PathsInOwnDirectoryWitness ==
    /\ Len(createdOk) >= 2
    /\ createdOk[1].id # createdOk[2].id
    /\ SubSeq(createdOk[1].pre_op_path, 4, Len(createdOk[1].pre_op_path))
          # SubSeq(createdOk[2].pre_op_path, 4, Len(createdOk[2].pre_op_path))

-----------------------------------------------------------------------------
(* The names of the stored uploads, over all short original filenames *)

MaxNameLen == 4

FilenameChars == {"s", ".", "p"}

\* UploadFile.filename: None or a str of at most MaxNameLen characters
Filenames ==
    {None} \cup UNION {[1..n -> FilenameChars] : n \in 0..MaxNameLen}

\* f"pre_op{pre_op_ext}", f"during_op{during_op_ext}"
upload_filename(stem, filename) == <<stem>> \o upload_ext(filename)

InitNames == Init

\* the on-disk name analyze_occlusion computes for one upload
NameUpload(stem, filename) ==
    /\ response' = [op |-> "filename", arg |-> <<stem, filename>>, status |-> 200,
                    body |-> upload_filename(stem, filename)]
    /\ UNCHANGED <<scans_db, snapshot, uploads, scan_dirs, issued, faults, running,
                   createdOk, deletedOk, anyFailed, tasks>>

NextNames ==
    \E stem \in {"pre_op", "during_op"}, filename \in Filenames :
        NameUpload(stem, filename)

SpecNames == InitNames /\ [][NextNames]_vars

\* the original filename has no extension: it is missing, empty, or a name
\* without a dot-suffix
NoExtension(filename) ==
    \/ filename = None
    \/ filename = <<>>
    \/ \A i \in 2..Len(filename) :
          filename[i] # "." \/ \A j \in 1..(i - 1) : filename[j] = "."

\* C18: the stored filename is the logical name followed by the extension of
\* the original filename, and by .jpg when the original has no extension, so
\* it always carries an extension.
StoredNameHasExtension ==
    response.op = "filename"
        => LET stem     == response.arg[1]
               filename == response.arg[2]
               stored   == response.body
           IN  /\ stored[1] = stem
               /\ Len(stored) >= 2 /\ stored[2] = "."
               /\ NoExtension(filename) => Tail(stored) = <<".", "j", "p", "g">>
               /\ ~NoExtension(filename)
                     => \E i \in 2..Len(filename) :
                           /\ Tail(stored) = SubSeq(filename, i, Len(filename))
                           /\ \A j \in (i + 1)..Len(filename) : filename[j] # "."

-----------------------------------------------------------------------------
(* Several requests in flight: the handlers as coroutines on one event loop, *)
(* one action per statement group                                           *)

\* the suspension points of a handler: (op, pc) such that the handler awaits
\* after reaching pc.  No handler body contains an await.
Awaits_in_save(op, pc) == op = "create" /\ pc = "appended"

Awaits(op, pc) == FALSE

\* the coroutine has started and has not returned
MidHandler(task) == task.pc \notin {"idle", "ready"}

\* the event loop runs a coroutine until it awaits or returns: it can run a
\* statement of the task in `slot` when no other started coroutine is between
\* suspension points
LoopMayRun(slot) ==
    \A u \in DOMAIN tasks \ {slot} :
        ~MidHandler(tasks[u]) \/ Awaits(tasks[u].op, tasks[u].pc)

Finish(slot) == [tasks EXCEPT ![slot] = IdleTask]

Goto(slot, pc) == [tasks EXCEPT ![slot].pc = pc]

\* open('scans_db.json', 'w'): the file exists and is empty
truncated == [exists |-> TRUE, text |-> <<>>]

\* a request arrives: its handler coroutine is created, not yet run; it is
\* named by the lowest free slot
Accept(slot, op, arg) ==
    /\ running
    /\ tasks[slot].pc = "idle"
    /\ \A u \in 1..(slot - 1) : tasks[u].pc # "idle"
    /\ op = "create"
          => issued + Cardinality({u \in DOMAIN tasks :
                                      tasks[u].op = "create" /\ tasks[u].pc = "ready"})
                < MaxScans
    /\ tasks' = [tasks EXCEPT ![slot] = [IdleTask EXCEPT !.op = op, !.arg = arg,
                                                           !.pc = "ready"]]
    /\ UNCHANGED <<scans_db, snapshot, uploads, scan_dirs, issued, faults, running,
                   response, createdOk, deletedOk, anyFailed>>

\* get_scans, lines 76-78
StepList(slot) ==
    /\ tasks[slot].op = "list" /\ tasks[slot].pc = "ready"
    /\ LoopMayRun(slot)
    /\ response' = [op |-> "list", arg |-> tasks[slot].arg, status |-> 200,
                    body |-> get_scans(scans_db, tasks[slot].arg)]
    /\ tasks' = Finish(slot)
    /\ UNCHANGED <<scans_db, snapshot, uploads, scan_dirs, issued, faults, running,
                   createdOk, deletedOk, anyFailed>>

\* get_scan, lines 85-102
StepGet(slot) ==
    /\ tasks[slot].op = "get" /\ tasks[slot].pc = "ready"
    /\ LoopMayRun(slot)
    /\ LET r == get_scan(scans_db, tasks[slot].arg)
       IN  /\ scans_db' = r.scans_db
           /\ response' = [op |-> "get", arg |-> tasks[slot].arg,
                           status |-> r.status, body |-> r.body]
    /\ tasks' = Finish(slot)
    /\ UNCHANGED <<snapshot, uploads, scan_dirs, issued, faults, running,
                   createdOk, deletedOk, anyFailed>>

\* delete_scan, lines 110-111: the filtered list is bound to scans_db
StepDeleteFilter(slot) ==
    /\ tasks[slot].op = "delete" /\ tasks[slot].pc = "ready"
    /\ LoopMayRun(slot)
    /\ scans_db' = delete_scan(scans_db, snapshot, tasks[slot].arg, "none", 0).scans_db
    /\ tasks' = [tasks EXCEPT ![slot].pc = "filtered",
                              ![slot].initial_length = Len(scans_db)]
    /\ UNCHANGED <<snapshot, uploads, scan_dirs, issued, faults, running, response,
                   createdOk, deletedOk, anyFailed>>

\* delete_scan, lines 113-114: the length test
StepDeleteTest(slot) ==
    /\ tasks[slot].op = "delete" /\ tasks[slot].pc = "filtered"
    /\ LoopMayRun(slot)
    /\ IF Len(scans_db) = tasks[slot].initial_length
       THEN /\ response' = [op |-> "delete", arg |-> tasks[slot].arg,
                            status |-> 404, body |-> <<>>]
            /\ tasks' = Finish(slot)
       ELSE /\ tasks' = Goto(slot, "tested")
            /\ UNCHANGED response
    /\ UNCHANGED <<scans_db, snapshot, uploads, scan_dirs, issued, faults, running,
                   createdOk, deletedOk, anyFailed>>

\* analyze_occlusion, lines 133-190: the id, the directory, the three files
\* and scan_data
StepCreateFiles(slot) ==
    /\ tasks[slot].op = "create" /\ tasks[slot].pc = "ready"
    /\ LoopMayRun(slot)
    /\ LET scan_id == uuid4(issued + 1)
           req == tasks[slot].arg
           r == analyze_occlusion(scans_db, snapshot, uploads, scan_id,
                                  utc_now(issued + 1), req[1], req[2], req[3], "none", 0)
           scan_data == CHOOSE scan \in SeqToSet(r.scans_db) : scan.id = scan_id
       IN  /\ uploads' = r.uploads
           /\ scan_dirs' = scan_dirs \cup {scan_id}
           /\ tasks' = [tasks EXCEPT ![slot].pc = "built",
                                     ![slot].scan_data = <<scan_data>>]
    /\ issued' = issued + 1
    /\ UNCHANGED <<scans_db, snapshot, faults, running, response,
                   createdOk, deletedOk, anyFailed>>

\* save_scan_to_db, line 27: the append
StepCreateAppend(slot) ==
    /\ tasks[slot].op = "create" /\ tasks[slot].pc = "built"
    /\ LoopMayRun(slot)
    /\ scans_db' = save_scan_to_db(scans_db, snapshot, tasks[slot].scan_data[1],
                                   "none", 0).scans_db
    /\ tasks' = Goto(slot, "appended")
    /\ UNCHANGED <<snapshot, uploads, scan_dirs, issued, faults, running, response,
                   createdOk, deletedOk, anyFailed>>

\* lines 29 and 117: open('scans_db.json', 'w')
StepOpen(slot) ==
    /\ \/ tasks[slot].op = "create" /\ tasks[slot].pc = "appended"
       \/ tasks[slot].op = "delete" /\ tasks[slot].pc = "tested"
    /\ LoopMayRun(slot)
    /\ snapshot' = truncated
    /\ tasks' = Goto(slot, "opened")
    /\ UNCHANGED <<scans_db, uploads, scan_dirs, issued, faults, running, response,
                   createdOk, deletedOk, anyFailed>>

\* lines 30 and 118: json.dump(scans_db, f), and the return of the handler
StepDump(slot) ==
    /\ tasks[slot].op \in {"create", "delete"} /\ tasks[slot].pc = "opened"
    /\ LoopMayRun(slot)
    /\ snapshot' = write_json(snapshot, scans_db, "none", 0)
    /\ response' = [op |-> tasks[slot].op,
                    arg |-> IF tasks[slot].op = "create"
                            THEN tasks[slot].scan_data[1].id ELSE tasks[slot].arg,
                    status |-> 200,
                    body |-> IF tasks[slot].op = "create"
                             THEN tasks[slot].scan_data[1].analysis_results ELSE <<>>]
    /\ tasks' = Finish(slot)
    /\ UNCHANGED <<scans_db, uploads, scan_dirs, issued, faults, running,
                   createdOk, deletedOk, anyFailed>>

Slots == 1..MaxInflight

\* the create request of this specification
LoopRequest == <<<<"P", "1">>, None, <<"s", ".", "p">>>>

NextLoop ==
    \/ \E slot \in Slots : Accept(slot, "create", LoopRequest)
    \/ \E slot \in Slots, scan_id \in ScanIds : Accept(slot, "delete", scan_id)
    \/ \E slot \in Slots : Accept(slot, "get", uuid4(1))
    \/ \E slot \in Slots : Accept(slot, "list", None)
    \/ \E slot \in Slots : StepList(slot)
    \/ \E slot \in Slots : StepGet(slot)
    \/ \E slot \in Slots : StepDeleteFilter(slot)
    \/ \E slot \in Slots : StepDeleteTest(slot)
    \/ \E slot \in Slots : StepCreateFiles(slot)
    \/ \E slot \in Slots : StepCreateAppend(slot)
    \/ \E slot \in Slots : StepOpen(slot)
    \/ \E slot \in Slots : StepDump(slot)

SpecLoop == Init /\ [][NextLoop]_vars

\* C19: with several requests in flight, a handler executes a statement only
\* while no other handler is between its first statement and its return: no
\* handler runs between another handler's in-memory mutation and its
\* snapshot rewrite, and no two rewrites interleave.
HandlersRunToCompletion ==
    [][\A t \in Slots :
          (tasks[t].pc # "idle" /\ tasks'[t].pc # tasks[t].pc)
              => \A u \in Slots \ {t} : ~MidHandler(tasks[u])]_vars

\* a create is between its append and its snapshot rewrite while another
\* request is waiting for the loop
HandlersRunToCompletionWitness ==
    \E t, u \in Slots :
        /\ tasks[t].op = "create" /\ tasks[t].pc = "appended"
        /\ tasks[u].op \in {"list", "delete"} /\ tasks[u].pc = "ready"

====
